---- MODULE Spec2Model ----
(***************************************************************************)
(* Model of src/bazel_flags.rs: the flag index (BazelFlags::from_flags),   *)
(* the resolution of a literal token (BazelFlags::get_by_invocation) and   *)
(* the merge of space-separated values (combine_key_value_flags).          *)
(*                                                                         *)
(* Conventions.                                                            *)
(*  - A Rust String on which the code does prefix/suffix work (flag names, *)
(*    abbreviations, tokens) is a sequence of one-character strings.       *)
(*    Command names and version identifiers are only compared for          *)
(*    equality and are plain TLA+ strings.                                 *)
(*  - Option<T> is a sequence of length at most one: None is <<>> and      *)
(*    Some(x) is <<x>>.                                                    *)
(*  - A Vec is a sequence. Slots are the code's 0-based usize positions:   *)
(*    slot i of a Vec v is v[i + 1].                                       *)
(*  - A HashMap is a function whose DOMAIN is its key set.                 *)
(*  - A reference &FlagInfo into self.flags is the pair of the slot it     *)
(*    points at and the record read through it.                            *)
(***************************************************************************)
EXTENDS Integers, Sequences, FiniteSets

VARIABLES
    flag_infos,     \* the catalog handed to from_flags (FlagCollection.flag_infos)
    bazel_version,  \* the Option<&str> version filter handed to from_flags
    bazel_flags,    \* Option<BazelFlags>: None until from_flags has run
    lines,          \* the caller's &mut [Line] that combine_key_value_flags rewrites
    ret             \* the last call: its arguments, its return value, and what its scan did

vars == <<flag_infos, bazel_version, bazel_flags, lines, ret>>

-----------------------------------------------------------------------------
(* Bounds of the model.                                                    *)

\* The longest catalog handed to from_flags.
MaxFlags == 2

\* The largest number of flag occurrences in the lines handed to the merge.
MaxOccurrences == 3

-----------------------------------------------------------------------------
(* Option and string helpers (Rust std).                                   *)

None == <<>>

Some(x) == <<x>>

is_some(o) == o # <<>>

unwrap(o) == o[1]

unwrap_or(o, d) == IF is_some(o) THEN o[1] ELSE d

\* str::starts_with(prefix)
starts_with(s, p) == Len(s) >= Len(p) /\ SubSeq(s, 1, Len(p)) = p

\* str::strip_prefix(prefix): Some(rest) when s starts with the prefix
strip_prefix(s, p) ==
    IF starts_with(s, p) THEN Some(SubSeq(s, Len(p) + 1, Len(s))) ELSE None

\* str::strip_suffix(c) for a single character c
strip_suffix(s, c) ==
    IF Len(s) >= 1 /\ s[Len(s)] = c THEN Some(SubSeq(s, 1, Len(s) - 1)) ELSE None

\* HashMap::insert: the new value replaces an earlier one under the same key
insert(m, k, v) == [x \in (DOMAIN m) \cup {k} |-> IF x = k THEN v ELSE m[x]]

Range(s) == {s[x] : x \in DOMAIN s}

-----------------------------------------------------------------------------
(* BazelFlags::from_flags                                                  *)

\* `for c in &f.commands { entry(c).or_default().push(i) }`
RECURSIVE push_commands(_, _, _)
push_commands(by_commands, cmds, i) ==
    IF cmds = <<>> THEN by_commands
    ELSE LET c == Head(cmds)
             list == IF c \in DOMAIN by_commands THEN by_commands[c] ELSE <<>>
         IN  push_commands(insert(by_commands, c, Append(list, i)), Tail(cmds), i)

\* A variant of skipped: the version filter is not applied
skipped_never(f, version) == FALSE

\* The version test of the loop: the flag at hand is skipped
skipped(f, version) ==
    is_some(version) /\ ~ \E v \in Range(f.bazel_versions) : v = unwrap(version)

\* A variant of index_flag: the old name of a flag is not registered
index_flag_without_old_name(acc, f, i, version) ==
    IF skipped(f, version) THEN acc
    ELSE [flags_by_commands |-> push_commands(acc.flags_by_commands, f.commands, i),
          flags_by_name |-> insert(acc.flags_by_name, f.name, i),
          flags_by_abbreviation |->
              IF is_some(f.abbreviation)
              THEN insert(acc.flags_by_abbreviation, unwrap(f.abbreviation), i)
              ELSE acc.flags_by_abbreviation]

\* One iteration of `for (i, f) in flags.iter().enumerate()`
index_flag(acc, f, i, version) ==
    IF skipped(f, version) THEN acc
    ELSE LET by_name1 == insert(acc.flags_by_name, f.name, i)
             by_name2 == IF is_some(f.old_name)
                         THEN insert(by_name1, unwrap(f.old_name), i)
                         ELSE by_name1
             by_cmds  == push_commands(acc.flags_by_commands, f.commands, i)
             by_abbr  == IF is_some(f.abbreviation)
                         THEN insert(acc.flags_by_abbreviation, unwrap(f.abbreviation), i)
                         ELSE acc.flags_by_abbreviation
         IN  [flags_by_commands |-> by_cmds,
              flags_by_name |-> by_name2,
              flags_by_abbreviation |-> by_abbr]

\* The whole loop, from slot i on
RECURSIVE index_loop(_, _, _, _)
index_loop(acc, flags, i, version) ==
    IF i >= Len(flags) THEN acc
    ELSE index_loop(index_flag(acc, flags[i + 1], i, version), flags, i + 1, version)

\* `values().flatten().copied().collect()`: the lists of the map, one after the
\* other, in the map's iteration order (unspecified; the sort that follows makes
\* the result the same for every order)
RECURSIVE values_flatten(_)
values_flatten(m) ==
    IF DOMAIN m = {} THEN <<>>
    ELSE LET k == CHOOSE x \in DOMAIN m : TRUE
         IN  m[k] \o values_flatten([x \in (DOMAIN m) \ {k} |-> m[x]])

\* Vec::sort on slots
RECURSIVE sort(_)
sort(v) ==
    IF v = <<>> THEN <<>>
    ELSE LET least == CHOOSE x \in Range(v) : \A y \in Range(v) : x <= y
             at == CHOOSE p \in DOMAIN v : v[p] = least
         IN  <<least>> \o sort(SubSeq(v, 1, at - 1) \o SubSeq(v, at + 1, Len(v)))

\* Vec::dedup: drops an element equal to the one before it
RECURSIVE dedup(_)
dedup(v) ==
    IF Len(v) <= 1 THEN v
    ELSE IF v[1] = v[2] THEN dedup(Tail(v))
         ELSE <<v[1]>> \o dedup(Tail(v))

\* A variant of common_flags_of: the list is sorted and not deduplicated
common_flags_of_with_duplicates(by_commands) == sort(values_flatten(by_commands))

\* `common_flags`: the union of the lists of all commands
common_flags_of(by_commands) == dedup(sort(values_flatten(by_commands)))

\* `commands`: the keys of the map in its (unspecified) iteration order, then
\* "import" and "try-import". The unordered part is kept as the set of its
\* elements, the appended part as the sequence it is.
commands_of(by_commands) ==
    [keys |-> DOMAIN by_commands, extended |-> <<"import", "try-import">>]

from_flags(flags, version) ==
    LET loop == index_loop([flags_by_commands |-> <<>>,
                            flags_by_name |-> <<>>,
                            flags_by_abbreviation |-> <<>>],
                           flags, 0, version)
        common_flags == common_flags_of(loop.flags_by_commands)
        with_common == insert(loop.flags_by_commands, "common", common_flags)
        with_always == insert(with_common, "always", common_flags)
    IN  [commands |-> commands_of(with_always),
         flags |-> flags,
         flags_by_commands |-> with_always,
         flags_by_name |-> loop.flags_by_name,
         flags_by_abbreviation |-> loop.flags_by_abbreviation]

-----------------------------------------------------------------------------
(* BazelFlags::get_by_invocation                                           *)

\* The (FlagLookupType, &FlagInfo) of a hit at slot i
hit(lookup_type, self, i) ==
    [lookup_type |-> lookup_type, slot |-> i, info |-> self.flags[i + 1]]

\* A variant of long_name_hit: a flag that has an old name is classified
\* OldName whatever the candidate was
long_name_hit_any_old_name(self, stripped_no) ==
    LET i == self.flags_by_name[stripped_no]
    IN  hit(IF is_some(self.flags[i + 1].old_name) THEN "OldName" ELSE "Normal", self, i)

\* The closure of the long-name branch: the classification of a hit at the
\* slot the name map holds for the candidate
long_name_hit(self, stripped_no) ==
    LET i == self.flags_by_name[stripped_no]
        flag == self.flags[i + 1]
        old_name == is_some(flag.old_name) /\ unwrap(flag.old_name) = stripped_no
    IN  hit(IF old_name THEN "OldName" ELSE "Normal", self, i)

\* A variant of long_name_lookup: a third dash is not rejected
long_name_lookup_third_dash(self, long_name) ==
    LET stripped_no == unwrap_or(strip_prefix(long_name, <<"n", "o">>), long_name)
    IN  IF stripped_no \in DOMAIN self.flags_by_name
        THEN Some(long_name_hit(self, stripped_no))
        ELSE None

\* `if let Some(long_name) = stripped.strip_prefix("--")`: the long names
long_name_lookup(self, long_name) ==
    IF starts_with(long_name, <<"-">>) THEN None
    ELSE LET stripped_no == unwrap_or(strip_prefix(long_name, <<"n", "o">>), long_name)
         IN  IF stripped_no \in DOMAIN self.flags_by_name
             THEN Some(long_name_hit(self, stripped_no))
             ELSE None

\* A variant of short_name_lookup: the abbreviation is looked up among the names
short_name_lookup_by_name(self, abbreviation) ==
    IF starts_with(abbreviation, <<"-">>) THEN None
    ELSE IF abbreviation \in DOMAIN self.flags_by_name
         THEN Some(hit("Abbreviation", self, self.flags_by_name[abbreviation]))
         ELSE None

\* `if let Some(abbreviation) = stripped.strip_prefix('-')`: the short names
short_name_lookup(self, abbreviation) ==
    IF starts_with(abbreviation, <<"-">>) THEN None
    ELSE IF abbreviation \in DOMAIN self.flags_by_abbreviation
         THEN Some(hit("Abbreviation", self, self.flags_by_abbreviation[abbreviation]))
         ELSE None

get_by_invocation(self, s) ==
    LET stripped == unwrap_or(strip_suffix(s, "="), s)
        long == strip_prefix(stripped, <<"-", "-">>)
        short == strip_prefix(stripped, <<"-">>)
    IN  IF is_some(long) THEN long_name_lookup(self, unwrap(long))
        ELSE IF is_some(short) THEN short_name_lookup(self, unwrap(short))
        ELSE None

-----------------------------------------------------------------------------
(* combine_key_value_flags                                                 *)

\* A Spanned<String> is the pair (text, span): tok[1] is `.0`, tok[2] is `.1`.
Spanned(text, start, end) == <<text, [start |-> start, end |-> end]>>

\* A variant of keeps_value: an abbreviation is combined like a long name
keeps_value_of_long_names(flag, lookup_type) == is_some(flag.value)

\* `flag.value.is_some() || lookup_type == FlagLookupType::Abbreviation`: the
\* occurrence is not combined with the next one
keeps_value(flag, lookup_type) ==
    is_some(flag.value) \/ lookup_type = "Abbreviation"

\* A variant of requires_value: every flag takes the next token
requires_value_always(info) == TRUE

\* `info.requires_value()`: the getter of the optional field, false when the
\* catalog does not say
requires_value(info) == info.requires_value

\* A variant of combined: the span begins where the next value begins
combined_from_value_start(next_name, next_value) ==
    Spanned(next_name[1] \o <<"=">> \o next_value[1],
            next_value[2].start, next_value[2].end)

\* The value made of a next occurrence that has a name and a value
combined(next_name, next_value) ==
    Spanned(next_name[1] \o <<"=">> \o next_value[1],
            next_name[2].start, next_value[2].end)

\* The value taken from the next occurrence
value_of_next(next_flag) ==
    IF is_some(next_flag.name)
    THEN IF is_some(next_flag.value)
         THEN Some(combined(unwrap(next_flag.name), unwrap(next_flag.value)))
         ELSE next_flag.name
    ELSE IF is_some(next_flag.value) THEN next_flag.value
    ELSE None

\* The closure of the loop body for the occurrence at cursor i: the value the
\* occurrence gets (None: the occurrence is emitted as it stands) and by how
\* much the closure advanced the cursor.
merged_value(self, flags, i) ==
    LET flag == flags[i + 1]
        found == IF is_some(flag.name)
                 THEN get_by_invocation(self, unwrap(flag.name)[1])
                 ELSE None
    IN  IF ~ is_some(flag.name) THEN [value |-> None, advance |-> 0]
        ELSE IF ~ is_some(found) THEN [value |-> None, advance |-> 0]
        ELSE IF keeps_value(flag, unwrap(found).lookup_type)
        THEN [value |-> flag.value, advance |-> 0]
        ELSE IF requires_value(unwrap(found).info)
        THEN IF i + 1 >= Len(flags) THEN [value |-> None, advance |-> 0]
             ELSE [value |-> value_of_next(flags[i + 2]), advance |-> 1]
        ELSE [value |-> None, advance |-> 0]

\* `.map(|new_value| Flag {..}).unwrap_or_else(|| flag.clone())`
emitted(flag, value) ==
    IF is_some(value) THEN [name |-> flag.name, value |-> value] ELSE flag

\* `while i < l.flags.len()`: the scan of one line from cursor i on. `kept`
\* records the cursor positions whose occurrence was pushed to new_flags and
\* `cursor` the value of i when the loop ends (neither is program state: they
\* record what the scan did).
RECURSIVE scan(_, _, _, _, _)
scan(self, flags, i, new_flags, kept) ==
    IF i >= Len(flags)
    THEN [flags |-> new_flags, kept |-> kept, cursor |-> i]
    ELSE LET m == merged_value(self, flags, i)
         IN  scan(self, flags, i + m.advance + 1,
                  Append(new_flags, emitted(flags[i + 1], m.value)),
                  Append(kept, i))

combine_key_value_flags(ls, self) ==
    [l \in DOMAIN ls |-> scan(self, ls[l].flags, 0, <<>>, <<>>)]

-----------------------------------------------------------------------------
(* The inputs the model draws from.                                        *)

\* A FlagInfo, with the fields the indexed code reads
FlagInfo(name, old_name, abbreviation, cmds, needs_value, versions) ==
    [name |-> name, old_name |-> old_name, abbreviation |-> abbreviation,
     commands |-> cmds, requires_value |-> needs_value,
     bazel_versions |-> versions]

\* A catalog of at most MaxFlags flags of a pool
IsCatalog(flags, pool) == \E n \in 0..MaxFlags : flags \in [1..n -> pool]

\* Catalogs for the resolver: names that are empty, that begin with `no` or
\* with a dash, that end with `=`; aliases and abbreviations that collide with
\* a name or with each other; and flags that only an older version has, which
\* the version filter skips
LookupFlags ==
    {FlagInfo(n, o, a, <<"build">>, FALSE, <<"7", "8">>) :
        n \in {<<>>, <<"k">>, <<"n", "o", "k">>, <<"-", "k">>, <<"k", "=">>},
        o \in {None, Some(<<"k">>), Some(<<"n", "o", "k">>)},
        a \in {None, Some(<<"k">>)}}
    \cup
    {FlagInfo(n, None, a, <<"build">>, FALSE, <<"7">>) :
        n \in {<<"k">>, <<"n", "o", "k">>},
        a \in {None, Some(<<"k">>)}}

\* Catalogs for the index: flags of several commands (one of them named like
\* the synthesized "common"), of none, and of one command twice
IndexFlags ==
    {FlagInfo(n, o, a, c, FALSE, v) :
        n \in {<<"k">>, <<"j">>},
        o \in {None, Some(<<"k">>)},
        a \in {None, Some(<<"k">>)},
        c \in {<<>>, <<"build">>, <<"test", "build">>, <<"common", "build">>,
               <<"test", "test">>},
        v \in {<<"7">>, <<"7", "8">>}}

\* The version filters: none, and one that some flags lack
Versions == {None, Some("8")}

\* The catalog for the merge: `jobs` takes its value from the next token and
\* has an abbreviation, `keep_going` takes none, and a renamed flag whose old
\* name is `k` takes one
MergeFlags ==
    <<FlagInfo(<<"j">>, None, Some(<<"j">>), <<"build">>, TRUE, <<"7", "8">>),
      FlagInfo(<<"k">>, None, None, <<"build">>, FALSE, <<"7", "8">>),
      FlagInfo(<<"t">>, Some(<<"k">>), None, <<"build">>, TRUE, <<"7", "8">>)>>

\* A catalog of at most MaxFlags of the flags of a catalog, in its order
IsPartOf(flags, catalog) ==
    \E chosen \in SUBSET (DOMAIN catalog) :
        /\ Cardinality(chosen) <= MaxFlags
        /\ flags = SelectSeq(catalog, LAMBDA f : \E p \in chosen : catalog[p] = f)

\* What the tokenizer hands over for one occurrence: a name, a value, both or
\* neither
Occurrences ==
    [name : {None, Some(<<"-", "-", "j">>), Some(<<"-", "j">>),
             Some(<<"-", "-", "k">>), Some(<<"5">>)},
     value : {None, Some(<<"5">>)}]

\* The Line of a sequence of occurrences, each token with the span of its place
LineOf(occs) ==
    [flags |->
        [p \in DOMAIN occs |->
            [name  |-> IF is_some(occs[p].name)
                       THEN Some(Spanned(unwrap(occs[p].name), 4 * p, 4 * p + 1))
                       ELSE None,
             value |-> IF is_some(occs[p].value)
                       THEN Some(Spanned(unwrap(occs[p].value), 4 * p + 2, 4 * p + 3))
                       ELSE None]]]

\* The tokens handed to get_by_invocation: long and short forms of the names
\* above, with a trailing `=`, negated, with three dashes, and with no dash
QueryTokens ==
    {<<"-", "-">> \o n : n \in {<<>>, <<"k">>, <<"n", "o", "k">>, <<"-", "k">>,
                                <<"k", "=">>, <<"n", "o", "n", "o", "k">>}}
    \cup {<<"-">> \o a : a \in {<<>>, <<"k">>, <<"k", "=">>}}
    \cup {<<>>, <<"k">>}

\* A file of at most MaxOccurrences occurrences: no line, one line, or two
\* lines with the line break after the first occurrence
IsFile(ls) ==
    \/ ls = <<>>
    \/ \E n \in 0..MaxOccurrences : \E o \in [1..n -> Occurrences] :
          \/ ls = <<LineOf(o)>>
          \/ n >= 1 /\ ls = <<LineOf(SubSeq(o, 1, 1)), LineOf(SubSeq(o, 2, n))>>

\* No file: the resolver and the index are checked without lines
NoFile(ls) == ls = <<>>

-----------------------------------------------------------------------------
(* The state machine.                                                      *)

NoCall == [op |-> "none"]

InitCall(versions) ==
    /\ bazel_version \in versions
    /\ bazel_flags = None
    /\ ret = NoCall

\* BazelFlags::from_flags(flag_infos, bazel_version)
FromFlags ==
    /\ bazel_flags = None
    /\ bazel_flags' = Some(from_flags(flag_infos, bazel_version))
    /\ ret' = [op |-> "from_flags"]
    /\ UNCHANGED <<flag_infos, bazel_version, lines>>

\* bazel_flags.get_by_invocation(s)
GetByInvocation(s) ==
    /\ is_some(bazel_flags)
    /\ ret' = [op |-> "get_by_invocation", s |-> s,
               result |-> get_by_invocation(unwrap(bazel_flags), s)]
    /\ UNCHANGED <<flag_infos, bazel_version, bazel_flags, lines>>

\* combine_key_value_flags(&mut lines, &bazel_flags)
CombineKeyValueFlags ==
    /\ is_some(bazel_flags)
    /\ LET scans == combine_key_value_flags(lines, unwrap(bazel_flags))
       IN  /\ lines' = [l \in DOMAIN lines |-> [lines[l] EXCEPT !.flags = scans[l].flags]]
           /\ ret' = [op |-> "combine_key_value_flags",
                      lines |-> lines,
                      kept |-> [l \in DOMAIN lines |-> scans[l].kept],
                      cursor |-> [l \in DOMAIN lines |-> scans[l].cursor],
                      again |-> ret.op = "combine_key_value_flags"]
    /\ UNCHANGED <<flag_infos, bazel_version, bazel_flags>>

\* The resolver on an index built from any catalog
Init == IsCatalog(flag_infos, LookupFlags) /\ InitCall(Versions) /\ NoFile(lines)

Next == FromFlags \/ \E s \in QueryTokens : GetByInvocation(s)

Spec == Init /\ [][Next]_vars

\* The index built from catalogs with several commands
InitIndex == IsCatalog(flag_infos, IndexFlags) /\ InitCall(Versions) /\ NoFile(lines)

NextIndex == FromFlags

SpecIndex == InitIndex /\ [][NextIndex]_vars

\* The merge of the lines of a file
InitMerge == IsPartOf(flag_infos, MergeFlags) /\ InitCall({None}) /\ IsFile(lines)

NextMerge == FromFlags \/ CombineKeyValueFlags

SpecMerge == InitMerge /\ [][NextMerge]_vars

-----------------------------------------------------------------------------
(* The vocabulary of the properties.                                       *)

Built == is_some(bazel_flags)

\* The slots of the catalog and the flag at a slot
Slots == 0..(Len(flag_infos) - 1)

FlagAt(i) == flag_infos[i + 1]

\* The flag passes the version filter of the build
PassesFilter(f) ==
    bazel_version = None \/ unwrap(bazel_version) \in Range(f.bazel_versions)

IndexedSlots == {i \in Slots : PassesFilter(FlagAt(i))}

\* The last call was get_by_invocation(s)
Queried(s) == Built /\ ret.op = "get_by_invocation" /\ ret.s = s

Long(n) == <<"-", "-">> \o n

Short(a) == <<"-">> \o a

\* A name that a token can carry: no leading dash, no trailing `=`
Plain(n) == ~ starts_with(n, <<"-">>) /\ strip_suffix(n, "=") = None

Negated(n) == starts_with(n, <<"n", "o">>)

\* A flag after slot i in the index writes n into the name map
WrittenLater(i, n) ==
    \E j \in IndexedSlots :
        j > i /\ (FlagAt(j).name = n \/ FlagAt(j).old_name = Some(n))

\* The match that names the flag at slot i
Match(lookup_type, i) ==
    Some([lookup_type |-> lookup_type, slot |-> i, info |-> FlagAt(i)])

-----------------------------------------------------------------------------
(* C1                                                                      *)

\* C1 as stated: for every flag of the index with canonical name N, the lookup
\* of "--" + N returns classification Normal and the flag at that flag's slot.
C1_Original ==
    \A i \in IndexedSlots :
        Queried(Long(FlagAt(i).name)) => ret.result = Match("Normal", i)

\* C1 amended: the lookup of "--" + N returns Normal and the flag itself when N
\* has no leading `no` or dash and no trailing `=`, no later flag of the index
\* has N as its name or alias, and the flag's own alias is not N. When N begins
\* with `no`, the token is read as a negation: the result is what the name map
\* holds under N without the prefix, or no match.
C1_CanonicalLookup ==
    \A i \in IndexedSlots :
        LET N == FlagAt(i).name
            by_name == unwrap(bazel_flags).flags_by_name
            shortened == SubSeq(N, 3, Len(N))
        IN  (Queried(Long(N)) /\ Plain(N)) =>
                IF Negated(N)
                THEN IF shortened \in DOMAIN by_name
                     THEN /\ is_some(ret.result)
                          /\ unwrap(ret.result).slot = by_name[shortened]
                     ELSE ret.result = None
                ELSE (~ WrittenLater(i, N) /\ FlagAt(i).old_name # Some(N))
                        => ret.result = Match("Normal", i)

\* A flag at slot 1, behind a flag that the filter skipped, is found by its name
C1_Witness ==
    /\ Len(flag_infos) = 2
    /\ ~ PassesFilter(FlagAt(0))
    /\ PassesFilter(FlagAt(1))
    /\ FlagAt(1).name = <<"k">>
    /\ is_some(FlagAt(1).old_name)
    /\ Queried(Long(<<"k">>))
    /\ ret.result = Match("Normal", 1)

-----------------------------------------------------------------------------
(* C2                                                                      *)

\* C2 as stated: for every flag of the index with abbreviation A and name N, the
\* lookup of "-" + A returns classification Abbreviation and the same flag
\* definition as the lookup of "--" + N.
C2_Original ==
    \A i \in IndexedSlots :
        LET f == FlagAt(i)
            canonical == get_by_invocation(unwrap(bazel_flags), Long(f.name))
        IN  (is_some(f.abbreviation) /\ Queried(Short(unwrap(f.abbreviation)))) =>
                /\ is_some(ret.result)
                /\ unwrap(ret.result).lookup_type = "Abbreviation"
                /\ is_some(canonical)
                /\ unwrap(canonical).info = unwrap(ret.result).info

\* The last flag of the index with abbreviation a
LastWith(a) ==
    CHOOSE i \in IndexedSlots :
        /\ FlagAt(i).abbreviation = Some(a)
        /\ \A j \in IndexedSlots : FlagAt(j).abbreviation = Some(a) => j <= i

\* C2 amended: the lookup of "-" + A (A with no leading dash and no trailing
\* `=`) returns Abbreviation and the last flag of the index whose abbreviation
\* is A; when the flag is that one and its name N has no leading `no` or dash,
\* no trailing `=`, and no later flag of the index has N as name or alias, the
\* lookup of "--" + N returns the same flag definition.
C2_AbbreviationLookup ==
    \A i \in IndexedSlots :
        LET f == FlagAt(i)
            canonical == get_by_invocation(unwrap(bazel_flags), Long(f.name))
        IN  (/\ is_some(f.abbreviation)
             /\ Plain(unwrap(f.abbreviation))
             /\ Queried(Short(unwrap(f.abbreviation)))) =>
                /\ ret.result = Match("Abbreviation", LastWith(unwrap(f.abbreviation)))
                /\ (/\ LastWith(unwrap(f.abbreviation)) = i
                    /\ Plain(f.name) /\ ~ Negated(f.name)
                    /\ ~ WrittenLater(i, f.name)) =>
                        /\ is_some(canonical)
                        /\ unwrap(canonical).slot = unwrap(ret.result).slot
                        /\ unwrap(canonical).info = unwrap(ret.result).info

\* Two flags of the index, the second with an abbreviation and a name of its own
C2_Witness ==
    /\ Len(flag_infos) = 2
    /\ IndexedSlots = {0, 1}
    /\ FlagAt(0).name = <<>>
    /\ FlagAt(1).name = <<"k">>
    /\ FlagAt(1).abbreviation = Some(<<"k">>)
    /\ Queried(Short(<<"k">>))
    /\ ret.result = Match("Abbreviation", 1)
    /\ get_by_invocation(unwrap(bazel_flags), Long(<<"k">>)) = Match("Normal", 1)

-----------------------------------------------------------------------------
(* C3                                                                      *)

\* The tokens C3 names besides "--": three dashes, or no dash
NeverAToken(s) == starts_with(s, <<"-", "-", "-">>) \/ ~ starts_with(s, <<"-">>)

\* What get_by_invocation can return: no match, or a classification and a flag
\* of the catalog
IsResult(r) ==
    \/ r = None
    \/ \E i \in Slots : \E t \in {"Normal", "OldName", "Abbreviation"} : r = Match(t, i)

\* C3 as stated: on any index the lookup of "--", of a token with three dashes
\* and of a token with no dash returns no match, and no lookup fails.
C3_Original ==
    \A s \in QueryTokens :
        Queried(s) =>
            /\ IsResult(ret.result)
            /\ (s = Long(<<>>) \/ NeverAToken(s)) => ret.result = None

\* Some flag of the index has the empty string as name or alias
EmptyNameIndexed ==
    \E i \in IndexedSlots : FlagAt(i).name = <<>> \/ FlagAt(i).old_name = Some(<<>>)

\* C3 amended: a token with three dashes and a token with no dash have no match
\* on any index; "--" has no match unless a flag of the index has an empty
\* name or alias, and then resolves to a flag with an empty name or alias; no
\* lookup fails.
C3_NoMatch ==
    \A s \in QueryTokens :
        Queried(s) =>
            /\ IsResult(ret.result)
            /\ NeverAToken(s) => ret.result = None
            /\ (s = Long(<<>>) /\ ~ EmptyNameIndexed) => ret.result = None
            /\ (s = Long(<<>>) /\ EmptyNameIndexed) =>
                    /\ is_some(ret.result)
                    /\ \/ unwrap(ret.result).info.name = <<>>
                       \/ unwrap(ret.result).info.old_name = Some(<<>>)

\* A token with three dashes has no match although a flag is named "-k"
C3_Witness ==
    /\ \E i \in IndexedSlots : FlagAt(i).name = <<"-", "k">>
    /\ Queried(<<"-", "-", "-", "k">>)
    /\ ret.result = None

-----------------------------------------------------------------------------
(* C10                                                                     *)

\* The candidate that the long-name branch looks up for a token
Candidate(s) ==
    LET stripped == unwrap_or(strip_suffix(s, "="), s)
        long_name == SubSeq(stripped, 3, Len(stripped))
    IN  unwrap_or(strip_prefix(long_name, <<"n", "o">>), long_name)

\* For every resolved "--" token: OldName exactly when the candidate is the
\* stored alias of the returned flag, Normal otherwise
ClassifiedByAlias ==
    \A s \in QueryTokens :
        (Queried(s) /\ starts_with(s, <<"-", "-">>) /\ is_some(ret.result)) =>
            LET r == unwrap(ret.result)
            IN  /\ r.lookup_type \in {"OldName", "Normal"}
                /\ r.lookup_type = "OldName" <=> r.info.old_name = Some(Candidate(s))

\* C10 as stated: for every flag of the index with alias A the lookup of
\* "--" + A resolves, with classification OldName, to the flag definition that
\* the lookup of the flag's name returns; and a resolved "--" token is OldName
\* exactly when the candidate equals the stored alias.
C10_Original ==
    /\ ClassifiedByAlias
    /\ \A i \in IndexedSlots :
        LET f == FlagAt(i)
            canonical == get_by_invocation(unwrap(bazel_flags), Long(f.name))
        IN  (is_some(f.old_name) /\ Queried(Long(unwrap(f.old_name)))) =>
                /\ is_some(ret.result)
                /\ unwrap(ret.result).lookup_type = "OldName"
                /\ is_some(canonical)
                /\ unwrap(canonical).info = unwrap(ret.result).info

\* C10 amended: for every flag of the index with alias A, where A has no leading
\* `no` or dash and no trailing `=` and no later flag of the index has A as name
\* or alias, the lookup of "--" + A resolves to that flag with classification
\* OldName; and a resolved "--" token is OldName exactly when the candidate
\* equals the stored alias of the returned flag, Normal otherwise.
C10_AliasLookup ==
    /\ ClassifiedByAlias
    /\ \A i \in IndexedSlots :
        LET f == FlagAt(i)
        IN  (/\ is_some(f.old_name)
             /\ Plain(unwrap(f.old_name)) /\ ~ Negated(unwrap(f.old_name))
             /\ ~ WrittenLater(i, unwrap(f.old_name))
             /\ Queried(Long(unwrap(f.old_name)))) =>
                ret.result = Match("OldName", i)

\* A flag is found by its alias while another flag is found by its name
C10_Witness ==
    /\ Len(flag_infos) = 2
    /\ IndexedSlots = {0, 1}
    /\ FlagAt(0).name = <<>>
    /\ FlagAt(0).old_name = Some(<<"k">>)
    /\ FlagAt(1).name = <<"n", "o", "k">>
    /\ FlagAt(1).old_name = None
    /\ Queried(Long(<<"k">>))
    /\ ret.result = Match("OldName", 0)

-----------------------------------------------------------------------------
(* C4                                                                      *)

\* The index that from_flags built
Index == unwrap(bazel_flags)

\* The sub-commands named by the flags of the index, and the slots of one
RealCommands == UNION {Range(FlagAt(i).commands) : i \in IndexedSlots}

RealSlots(c) == {i \in IndexedSlots : c \in Range(FlagAt(i).commands)}

\* Sorted and without duplicates
StrictlyIncreasing(v) == \A p, q \in DOMAIN v : p < q => v[p] < v[q]

\* C4: after from_flags the slot set under "common" is the union of the slot
\* sets of every real sub-command (of the lists the map stores for them, and of
\* the slots of the flags that name them), the list is sorted and has no
\* duplicates, and the list under "always" is the same list.
C4_CommonIsUnion ==
    Built =>
        LET by_commands == Index.flags_by_commands
        IN  /\ RealCommands \subseteq DOMAIN by_commands
            /\ {"common", "always"} \subseteq DOMAIN by_commands
            /\ Range(by_commands["common"]) =
                   UNION {Range(by_commands[c]) : c \in RealCommands}
            /\ Range(by_commands["common"]) = UNION {RealSlots(c) : c \in RealCommands}
            /\ StrictlyIncreasing(by_commands["common"])
            /\ by_commands["always"] = by_commands["common"]

\* Two flags of the index share a sub-command and the first has a second one,
\* so that its slot comes twice in the lists that are flattened
C4_Witness ==
    /\ Built
    /\ Len(flag_infos) = 2
    /\ DOMAIN Index.flags_by_commands = {"build", "test", "common", "always"}
    /\ Index.flags_by_commands["build"] = <<0, 1>>
    /\ Index.flags_by_commands["test"] = <<0>>
    /\ Index.flags_by_commands["common"] = <<0, 1>>
    /\ Index.flags_by_commands["always"] = <<0, 1>>

-----------------------------------------------------------------------------
(* C5                                                                      *)

\* The slots held by the three maps of the index
MappedSlots ==
    Range(Index.flags_by_name) \cup Range(Index.flags_by_abbreviation)
        \cup UNION {Range(Index.flags_by_commands[c]) : c \in DOMAIN Index.flags_by_commands}

\* With a filter: no slot of a flag that lacks the version is in a map, and the
\* owned list is the catalog
FilteredOut ==
    (Built /\ is_some(bazel_version)) =>
        /\ \A i \in Slots :
              unwrap(bazel_version) \notin Range(FlagAt(i).bazel_versions)
                  => i \notin MappedSlots
        /\ Index.flags = flag_infos

\* Without a filter: the slot of every flag is in the list of each of its
\* sub-commands
InCommandLists ==
    (Built /\ bazel_version = None) =>
        \A i \in Slots : \A c \in Range(FlagAt(i).commands) :
            c \in DOMAIN Index.flags_by_commands /\ i \in Range(Index.flags_by_commands[c])

\* C5 as stated: with filter V no slot of a flag that lacks V is in a map and
\* the owned list is the catalog; with no filter every flag's slot is
\* registered under its canonical name and in each of its sub-commands' lists.
C5_Original ==
    /\ FilteredOut
    /\ InCommandLists
    /\ (Built /\ bazel_version = None) =>
          \A i \in Slots :
              /\ FlagAt(i).name \in DOMAIN Index.flags_by_name
              /\ Index.flags_by_name[FlagAt(i).name] = i

\* The last flag of the catalog that has n as name or alias
LastWriter(n) ==
    CHOOSE i \in Slots :
        /\ FlagAt(i).name = n \/ FlagAt(i).old_name = Some(n)
        /\ \A j \in Slots : (FlagAt(j).name = n \/ FlagAt(j).old_name = Some(n)) => j <= i

\* C5 amended: as stated, except that with no filter the canonical name of
\* every flag is a key of the name map and holds the slot of the last flag of
\* the catalog that has that string as its name or alias (the flag's own slot
\* when no later flag has).
C5_VersionFilter ==
    /\ FilteredOut
    /\ InCommandLists
    /\ (Built /\ bazel_version = None) =>
          \A i \in Slots :
              /\ FlagAt(i).name \in DOMAIN Index.flags_by_name
              /\ Index.flags_by_name[FlagAt(i).name] = LastWriter(FlagAt(i).name)
              /\ (\A j \in Slots : j > i =>
                      /\ FlagAt(j).name # FlagAt(i).name
                      /\ FlagAt(j).old_name # Some(FlagAt(i).name))
                    => Index.flags_by_name[FlagAt(i).name] = i

\* A filter skipped the first flag of the catalog and indexed the second
C5_Witness ==
    /\ Built
    /\ bazel_version = Some("8")
    /\ Len(flag_infos) = 2
    /\ FlagAt(0).bazel_versions = <<"7">>
    /\ FlagAt(0).name = <<"j">>
    /\ FlagAt(0).abbreviation = Some(<<"k">>)
    /\ FlagAt(0).commands = <<"test", "build">>
    /\ Index.flags = flag_infos
    /\ Index.flags_by_name = [n \in {<<"k">>} |-> 1]
    /\ Index.flags_by_abbreviation = <<>>
    /\ Index.flags_by_commands["common"] = <<1>>

-----------------------------------------------------------------------------
(* The vocabulary of the merge properties.                                 *)

\* The last call was combine_key_value_flags: ret.lines holds the lines it was
\* given and `lines` the lines it left
Merged == Built /\ ret.op = "combine_key_value_flags"

MergedLines == DOMAIN ret.lines

In(l) == ret.lines[l].flags

Out(l) == lines[l].flags

\* The cursor positions of line l whose occurrence the scan pushed, in order
Kept(l) == ret.kept[l]

Positions(l) == 0..(Len(In(l)) - 1)

Visited(l) == Range(Kept(l))

\* The occurrence at cursor position p of the input of line l
Occ(l, p) == In(l)[p + 1]

\* What the name of an occurrence resolves to
Resolved(occ) ==
    IF is_some(occ.name) THEN get_by_invocation(Index, unwrap(occ.name)[1])
    ELSE None

ResolvedAs(occ, lookup_types) ==
    /\ is_some(Resolved(occ))
    /\ unwrap(Resolved(occ)).lookup_type \in lookup_types

\* The occurrence has no inline value and resolves, by its name or its alias,
\* to a flag that requires a following value
TakesNext(occ) ==
    /\ ~ is_some(occ.value)
    /\ ResolvedAs(occ, {"Normal", "OldName"})
    /\ unwrap(Resolved(occ)).info.requires_value

\* The occurrence of the output that was pushed at cursor position p
OutAt(l, p) ==
    Out(l)[CHOOSE q \in DOMAIN Kept(l) : Kept(l)[q] = p]

\* The name tokens of a list of occurrences, in order
NameTokens(flags) ==
    LET named == SelectSeq(flags, LAMBDA f : is_some(f.name))
    IN  [q \in DOMAIN named |-> unwrap(named[q].name)]

RECURSIVE IsSubsequence(_, _)
IsSubsequence(a, b) ==
    IF a = <<>> THEN TRUE
    ELSE IF b = <<>> THEN FALSE
    ELSE IF Head(a) = Head(b) THEN IsSubsequence(Tail(a), Tail(b))
    ELSE IsSubsequence(a, Tail(b))

-----------------------------------------------------------------------------
(* C6                                                                      *)

\* C6: combine_key_value_flags is idempotent: applied to its own output it
\* leaves every line's occurrence list as the first application left it, for
\* every index and every list of lines, whatever combination of present or
\* absent name and value the occurrences have.
C6_Idempotent ==
    (Merged /\ ret.again) => \A l \in MergedLines : Out(l) = In(l)

-----------------------------------------------------------------------------
(* C7                                                                      *)

\* C7 as stated: an occurrence whose name resolves with classification
\* Abbreviation is emitted unchanged and the occurrence that follows it is not
\* consumed by it: both are present in the output.
C7_Original ==
    Merged =>
        \A l \in MergedLines : \A p \in Positions(l) :
            ResolvedAs(Occ(l, p), {"Abbreviation"}) =>
                /\ p \in Visited(l)
                /\ OutAt(l, p) = Occ(l, p)
                /\ (p + 1) \in Positions(l) => (p + 1) \in Visited(l)

\* C7: an occurrence whose name resolves with classification Abbreviation, and
\* which is not itself consumed as the value of the occurrence before it, is
\* emitted unchanged, and the occurrence that follows it is not consumed: both
\* are present in the output, also when the flag of the abbreviation requires
\* a following value. An abbreviation that follows a long name which takes the
\* next token is consumed as that name's value.
C7_AbbreviationKept ==
    Merged =>
        \A l \in MergedLines : \A p \in Positions(l) :
            ResolvedAs(Occ(l, p), {"Abbreviation"}) =>
                /\ p \in Visited(l) =>
                      /\ OutAt(l, p) = Occ(l, p)
                      /\ (p + 1) \in Positions(l) => (p + 1) \in Visited(l)
                /\ p \notin Visited(l) =>
                      /\ p >= 1
                      /\ (p - 1) \in Visited(l)
                      /\ TakesNext(Occ(l, p - 1))
                      /\ is_some(OutAt(l, p - 1).value)

\* The abbreviation of a flag that requires a value, with no inline value, was
\* followed by a token: both are in the output as they were
C7_Witness ==
    /\ Merged
    /\ ~ ret.again
    /\ Len(flag_infos) >= 1
    /\ FlagAt(0).abbreviation = Some(<<"j">>)
    /\ FlagAt(0).requires_value
    /\ ret.lines = <<LineOf(<<[name |-> Some(<<"-", "j">>), value |-> None],
                              [name |-> Some(<<"5">>), value |-> None]>>)>>
    /\ lines = ret.lines
    /\ Kept(1) = <<0, 1>>

-----------------------------------------------------------------------------
(* C8                                                                      *)

\* C8: for every line the output list is no longer than the input list, the
\* name tokens of the output are a subsequence of the name tokens of the input
\* in the same order (each output occurrence has the name of the input
\* occurrence it was made of, and these follow each other in input order), an
\* input occurrence is missing from the output only if the occurrence
\* immediately before it had no inline value and resolved with classification
\* Normal or Alias to a flag that requires a following value, and the scan
\* reaches the end of the line.
C8_OutputShape ==
    Merged =>
        \A l \in MergedLines :
            /\ Len(Out(l)) <= Len(In(l))
            /\ IsSubsequence(NameTokens(Out(l)), NameTokens(In(l)))
            /\ Len(Kept(l)) = Len(Out(l))
            /\ StrictlyIncreasing(Kept(l))
            /\ Visited(l) \subseteq Positions(l)
            /\ \A q \in DOMAIN Out(l) : Out(l)[q].name = Occ(l, Kept(l)[q]).name
            /\ \A p \in Positions(l) :
                  p \notin Visited(l) =>
                      /\ p >= 1
                      /\ (p - 1) \in Visited(l)
                      /\ TakesNext(Occ(l, p - 1))
            /\ ret.cursor[l] = Len(In(l))

\* Of three occurrences the second is missing from the output: the first took
\* it as its value
C8_Witness ==
    /\ Merged
    /\ ~ ret.again
    /\ Len(ret.lines) = 1
    /\ Len(In(1)) = 3
    /\ Kept(1) = <<0, 2>>
    /\ Len(Out(1)) = 2
    /\ TakesNext(Occ(1, 0))
    /\ NameTokens(In(1)) # NameTokens(Out(1))
    /\ ret.cursor[1] = 3

-----------------------------------------------------------------------------
(* C9                                                                      *)

\* The value an occurrence gets from the next one
ValueFrom(next) ==
    IF is_some(next.name) /\ is_some(next.value)
    THEN Some(<<unwrap(next.name)[1] \o <<"=">> \o unwrap(next.value)[1],
                [start |-> unwrap(next.name)[2].start,
                 end |-> unwrap(next.value)[2].end]>>)
    ELSE IF is_some(next.name) THEN next.name
    ELSE IF is_some(next.value) THEN next.value
    ELSE None

\* The pair at positions p, p + 1 became one occurrence
PairMerged(l, p) ==
    /\ p \in Visited(l)
    /\ (p + 1) \notin Visited(l)
    /\ OutAt(l, p) = [name |-> Occ(l, p).name, value |-> ValueFrom(Occ(l, p + 1))]

\* The line [--jobs, 200, --keep_going] of the example, and what it becomes
ExampleLine ==
    LineOf(<<[name |-> Some(<<"-", "-", "j">>), value |-> None],
             [name |-> Some(<<"5">>), value |-> None],
             [name |-> Some(<<"-", "-", "k">>), value |-> None]>>)

ExampleMerged ==
    [flags |-> <<[name |-> Some(Spanned(<<"-", "-", "j">>, 4, 5)),
                  value |-> Some(Spanned(<<"5">>, 8, 9))],
                 [name |-> Some(Spanned(<<"-", "-", "k">>, 12, 13)),
                  value |-> None]>>]

ExampleCatalog == flag_infos = SubSeq(MergeFlags, 1, 2)

Example ==
    (Merged /\ ExampleCatalog /\ ret.lines = <<ExampleLine>>)
        => lines = <<ExampleMerged>>

\* C9 as stated: whenever an occurrence with no inline value resolves (Normal
\* or Alias) to a flag that requires a following value and a next occurrence
\* exists, the output has one occurrence in place of the pair, with the first
\* occurrence's name and the value made of the next occurrence.
C9_Original ==
    /\ Merged =>
          \A l \in MergedLines : \A p \in Positions(l) :
              (TakesNext(Occ(l, p)) /\ (p + 1) \in Positions(l))
                  => PairMerged(l, p)
    /\ Example

\* C9: when an occurrence that the scan reaches (one not itself consumed as
\* the value of the occurrence before it) has no inline value and resolves
\* (Normal or Alias) to a flag that requires a following value, and a next
\* occurrence exists, the output has one occurrence in place of the pair: it
\* keeps the first occurrence's name token and has as value the text
\* name=value spanning from the next name's start to the next value's end if
\* the next occurrence has both parts, the next name token if it has only a
\* name, the next value token if it has only a value, and no value if it has
\* neither. With jobs requiring a value and keep_going not, the line
\* [--jobs, 200, --keep_going] becomes the jobs occurrence with value 200 and
\* the keep_going occurrence with no value.
C9_MergedValue ==
    /\ Merged =>
          \A l \in MergedLines : \A p \in Positions(l) :
              (p \in Visited(l) /\ TakesNext(Occ(l, p)) /\ (p + 1) \in Positions(l))
                  => PairMerged(l, p)
    /\ Example

\* The alias of a renamed flag took the name and the value of the next
\* occurrence as name=value
C9_Witness ==
    /\ Merged
    /\ ~ ret.again
    /\ \E i \in Slots : FlagAt(i).old_name = Some(<<"k">>) /\ Index.flags_by_name[<<"k">>] = i
    /\ ret.lines = <<LineOf(<<[name |-> Some(<<"-", "-", "k">>), value |-> None],
                              [name |-> Some(<<"-", "-", "j">>), value |-> Some(<<"5">>)]>>)>>
    /\ lines = <<[flags |-> <<[name |-> Some(Spanned(<<"-", "-", "k">>, 4, 5)),
                               value |-> Some(Spanned(<<"-", "-", "j", "=", "5">>, 8, 11))]>>]>>

====
